---- MODULE Spec2Model ----
(***************************************************************************)
(* Group handlers of kayak-backend (src/api/group.go) over the two tables  *)
(* they touch, "group" and group_member.  Every handler is a sequence of   *)
(* SQL statements; one action models one statement together with the local *)
(* computation that follows it up to the next statement or the response.   *)
(* Each statement can end in a database error, chosen nondeterministically.*)
(***************************************************************************)
EXTENDS Integers, FiniteSets, Sequences, Bags, TLC

VARIABLES groups, groupSeq, members, proc

vars == <<groups, groupSeq, members, proc>>

(* ------------------------------ bounds --------------------------------- *)
\* ids the "group" serial hands out before CreateGroup is no longer accepted
MaxGroups == 2
\* the same for the interleaved requests of SpecConc
MaxConcGroups == 1
\* rows AddUserToGroup has put in group_member before it is no longer accepted
MaxAdded == 2

(* ------------------------------ inputs --------------------------------- *)
Nil == "nil"
Procs == {"p1", "p2"}
\* rows of "user"; the role is part of what CheckAuth puts in the context
Users == {1, 2}
NoSuchUser == {3}
ADMIN == "admin"
NORMAL == "normal"
RoleOf(u) == IF u = 2 THEN ADMIN ELSE NORMAL
\* invitation codes: what a request can carry, what the generator can return
Codes == {"c1", "c2"}
GeneratedCodes == {"c1"}
DefaultAreaId == 100
GroupIds == 1..MaxGroups

\* a Go pointer field of a request: nil, or a value
None == {}
Some(v) == {v}
Deref(ptr) == CHOOSE v \in ptr : TRUE

CreateRequests ==
    [Name : {"A"}, Description : {"d"}, AreaId : {None, Some(7)}]
UpdateRequests ==
    { [Name |-> None, Description |-> None, Invitation |-> None, AreaId |-> None],
      [Name |-> Some("B"), Description |-> Some("e"), Invitation |-> None, AreaId |-> None],
      [Name |-> None, Description |-> None, Invitation |-> Some("c2"), AreaId |-> Some(7)] }
GroupFilters ==
    { [ID |-> None, UserId |-> None, OwnerId |-> None, AreaId |-> None],
      [ID |-> Some(1), UserId |-> None, OwnerId |-> None, AreaId |-> None],
      [ID |-> None, UserId |-> Some(1), OwnerId |-> None, AreaId |-> None],
      [ID |-> None, UserId |-> None, OwnerId |-> Some(2), AreaId |-> None],
      [ID |-> None, UserId |-> None, OwnerId |-> None, AreaId |-> Some(100)] }

(* ------------------------------ tables --------------------------------- *)
\* a row of group_member; created_at plays no part in any handler
MemberRow(g, u, adm, own) ==
    [group_id |-> g, user_id |-> u, is_admin |-> adm, is_owner |-> own]
\* the flags a row gets when the INSERT names neither column
DefaultFlag == FALSE

\* the rows of bag B a WHERE clause selects, with their multiplicities
RowsOf(B, g, u) ==
    [r \in {x \in DOMAIN B : x.group_id = g /\ x.user_id = u} |-> B[r]]
RowsOfGroup(B, g) == [r \in {x \in DOMAIN B : x.group_id = g} |-> B[r]]
CountOf(B, g, u) == BagCardinality(RowsOf(B, g, u))
InsertRow(B, r) == B (+) SetToBag({r})

GroupExists(g) == g \in DOMAIN groups

(* ----------------------------- processes ------------------------------- *)
NoTx == [members |-> EmptyBag, groups |-> {}]
Fresh ==
    [pc |-> "idle", op |-> Nil, UserId |-> 0, Role |-> Nil, id |-> 0,
     user_id |-> 0, invitation |-> Nil, request |-> Nil, local |-> Nil,
     tx |-> NoTx, status |-> Nil, body |-> Nil, dbErr |-> FALSE]

\* a handler is entered by a goroutine that serves no request at the moment
Free(p) == proc[p].pc = "idle"

Enter(o, u) == [Fresh EXCEPT !.op = o, !.UserId = u, !.Role = RoleOf(u)]

\* c.String / c.JSON followed by return
Reply(r, st, b, e) ==
    [r EXCEPT !.pc = "done", !.status = st, !.body = b, !.tx = NoTx,
              !.local = Nil, !.dbErr = r.dbErr \/ e]

Init ==
    /\ groups = <<>>
    /\ groupSeq = 0
    /\ members = EmptyBag
    /\ proc = [p \in Procs |-> Fresh]

(* ------------------------ row locks of open transactions --------------- *)
\* DeleteGroup's transaction is open between MustBegin and Commit/Rollback; its
\* deletions are invisible to the other connections and lock the rows they hit
OpenTx(p) ==
    {q \in Procs \ {p} : proc[q].pc \in {"del_members", "del_group", "del_commit"}}
MemberLocked(p, g, u) ==
    \E q \in OpenTx(p) : RowsOf(proc[q].tx.members, g, u) # EmptyBag
GroupMembersLocked(p, g) ==
    \E q \in OpenTx(p) : RowsOfGroup(proc[q].tx.members, g) # EmptyBag
GroupLocked(p, g) == \E q \in OpenTx(p) : g \in proc[q].tx.groups

\* requests that will still insert a group_member row
Inserting == {q \in Procs : proc[q].pc \in {"add_user", "add_insert"}}
Added == [r \in {x \in DOMAIN members : ~x.is_owner} |-> members[r]]
RowBudget == BagCardinality(Added) + Cardinality(Inserting) < MaxAdded

(* --------------------------- shared checks ----------------------------- *)
NotPermitted_OwnerOnly(ownerId, userId, role) == ownerId # userId

\* groupUserId != c.GetInt("UserId") && role != global.ADMIN
NotPermitted(ownerId, userId, role) == ownerId # userId /\ role # ADMIN

InvitationRejected_NoAdmin(stored, given, role) == stored # given

\* invitation != c.Query("invitation") && role != global.ADMIN
InvitationRejected(stored, given, role) == stored # given /\ role # ADMIN

(* ----------------------------- CreateGroup ----------------------------- *)
AreaIdOrDefault_Always(a) == DefaultAreaId

\* request.AreaId == nil => 100
AreaIdOrDefault(a) == IF a = None THEN DefaultAreaId ELSE Deref(a)

NewGroup(req, code, userId) ==
    [name |-> req.Name, description |-> req.Description, invitation |-> code,
     user_id |-> userId, area_id |-> AreaIdOrDefault(req.AreaId)]

\* ShouldBindJSON, the default area and INSERT INTO "group" ... RETURNING id
CreateGroup(p) ==
    /\ Free(p)
    /\ groupSeq < MaxGroups
    /\ \E u \in Users, parseable \in BOOLEAN, req \in CreateRequests,
          code \in GeneratedCodes, fail \in BOOLEAN :
         LET r == [Enter("CreateGroup", u) EXCEPT !.request = req]
             gid == groupSeq + 1
         IN IF ~parseable
            THEN /\ proc' = [proc EXCEPT ![p] = Reply([r EXCEPT !.request = Nil], "400", Nil, FALSE)]
                 /\ UNCHANGED <<groups, groupSeq, members>>
            ELSE IF fail
            THEN /\ proc' = [proc EXCEPT ![p] = Reply(r, "500", Nil, TRUE)]
                 /\ UNCHANGED <<groups, groupSeq, members>>
            ELSE /\ groups' = (gid :> NewGroup(req, code, u)) @@ groups
                 /\ groupSeq' = gid
                 /\ proc' = [proc EXCEPT ![p] = [r EXCEPT !.pc = "create_member", !.local = gid]]
                 /\ UNCHANGED members

\* INSERT INTO group_member (...) VALUES ($1, $2, $3, true, true)
OwnerRow(gid, userId) == MemberRow(gid, userId, TRUE, TRUE)

CreateGroup_InsertMember(p) ==
    /\ proc[p].pc = "create_member"
    /\ \E fail \in BOOLEAN :
         LET r == proc[p]
         IN IF fail
            THEN /\ proc' = [proc EXCEPT ![p] = Reply(r, "500", Nil, TRUE)]
                 /\ UNCHANGED <<groups, groupSeq, members>>
            ELSE /\ members' = InsertRow(members, OwnerRow(r.local, r.UserId))
                 /\ proc' = [proc EXCEPT ![p] = [r EXCEPT !.pc = "create_select"]]
                 /\ UNCHANGED <<groups, groupSeq>>

\* the GroupResponse CreateGroup writes
CreatedBody(gid, g) ==
    [Id |-> gid, Name |-> g.name, Description |-> g.description,
     Invitation |-> g.invitation, UserId |-> g.user_id, AreaId |-> g.area_id]

\* SELECT * FROM "group" WHERE id = $1 and the JSON response
CreateGroup_Select(p) ==
    /\ proc[p].pc = "create_select"
    /\ \E fail \in BOOLEAN :
         LET r == proc[p]
         IN /\ proc' = [proc EXCEPT ![p] =
                  IF fail THEN Reply(r, "500", Nil, TRUE)
                  ELSE IF ~GroupExists(r.local) THEN Reply(r, "500", Nil, FALSE)
                  ELSE Reply(r, "200", CreatedBody(r.local, groups[r.local]), FALSE)]
            /\ UNCHANGED <<groups, groupSeq, members>>

(* -------------------------- GetGroupInvitation -------------------------- *)
GetGroupInvitation(p) ==
    /\ Free(p)
    /\ \E u \in Users, g \in GroupIds, fail \in BOOLEAN :
         LET r == [Enter("GetGroupInvitation", u) EXCEPT !.id = g]
         IN /\ proc' = [proc EXCEPT ![p] =
                  IF fail THEN Reply(r, "404", Nil, TRUE)
                  ELSE IF ~GroupExists(g) THEN Reply(r, "404", Nil, FALSE)
                  ELSE [r EXCEPT !.pc = "inv_member", !.local = groups[g].invitation]]
            /\ UNCHANGED <<groups, groupSeq, members>>

GetGroupInvitation_Member(p) ==
    /\ proc[p].pc = "inv_member"
    /\ \E fail \in BOOLEAN :
         LET r == proc[p]
             err == fail \/ CountOf(members, r.id, r.UserId) = 0
         IN /\ proc' = [proc EXCEPT ![p] =
                  IF err /\ r.Role # ADMIN THEN Reply(r, "403", Nil, fail)
                  ELSE Reply(r, "200", r.local, fail)]
            /\ UNCHANGED <<groups, groupSeq, members>>

(* ----------------------------- DeleteGroup ----------------------------- *)
\* SELECT user_id FROM "group" WHERE id = $1 and the permission check
DeleteGroup(p) ==
    /\ Free(p)
    /\ \E u \in Users, g \in GroupIds, fail \in BOOLEAN :
         LET r == [Enter("DeleteGroup", u) EXCEPT !.id = g]
         IN /\ proc' = [proc EXCEPT ![p] =
                  IF fail THEN Reply(r, "404", Nil, TRUE)
                  ELSE IF ~GroupExists(g) THEN Reply(r, "404", Nil, FALSE)
                  ELSE IF NotPermitted(groups[g].user_id, u, r.Role)
                       THEN Reply(r, "403", Nil, FALSE)
                  ELSE [r EXCEPT !.pc = "del_begin"]]
            /\ UNCHANGED <<groups, groupSeq, members>>

\* what DELETE FROM group_member WHERE group_id = $1 removes in the transaction
DeletedMembers(B, g) == RowsOfGroup(B, g)

\* global.Database.MustBegin(): takes no lock; a failure panics
DeleteGroup_Begin(p) ==
    /\ proc[p].pc = "del_begin"
    /\ \E fail \in BOOLEAN :
         LET r == proc[p]
         IN /\ proc' = [proc EXCEPT ![p] =
                  IF fail THEN Reply(r, "panic", Nil, TRUE)
                  ELSE [r EXCEPT !.pc = "del_members"]]
            /\ UNCHANGED <<groups, groupSeq, members>>

\* the first deletion run on the database handle instead of the transaction
DeleteGroup_Members_NoTx(p) ==
    /\ proc[p].pc = "del_members"
    /\ ~GroupMembersLocked(p, proc[p].id)
    /\ \E fail \in BOOLEAN :
         LET r == proc[p]
         IN IF fail
            THEN /\ proc' = [proc EXCEPT ![p] = Reply(r, "500", Nil, TRUE)]
                 /\ UNCHANGED <<groups, groupSeq, members>>
            ELSE /\ members' = members (-) DeletedMembers(members, r.id)
                 /\ proc' = [proc EXCEPT ![p] = [r EXCEPT !.pc = "del_group"]]
                 /\ UNCHANGED <<groups, groupSeq>>

\* tx.Exec(DELETE FROM group_member WHERE group_id = $1); it waits for the row
\* locks of another open transaction, and an error rolls back
DeleteGroup_Members(p) ==
    /\ proc[p].pc = "del_members"
    /\ ~GroupMembersLocked(p, proc[p].id)
    /\ \E fail \in BOOLEAN :
         LET r == proc[p]
         IN /\ proc' = [proc EXCEPT ![p] =
                  IF fail THEN Reply(r, "500", Nil, TRUE)
                  ELSE [r EXCEPT !.pc = "del_group",
                                 !.tx.members = DeletedMembers(members, r.id)]]
            /\ UNCHANGED <<groups, groupSeq, members>>

\* DELETE FROM "group" WHERE id = $1 in the transaction; an error rolls back
DeleteGroup_Group(p) ==
    /\ proc[p].pc = "del_group"
    /\ ~GroupLocked(p, proc[p].id)
    /\ \E fail \in BOOLEAN :
         LET r == proc[p]
         IN /\ proc' = [proc EXCEPT ![p] =
                  IF fail THEN Reply(r, "500", Nil, TRUE)
                  ELSE [r EXCEPT !.pc = "del_commit",
                                 !.tx.groups = {r.id} \cap DOMAIN groups]]
            /\ UNCHANGED <<groups, groupSeq, members>>

\* the tables after the transaction's deletions are committed
CommitGroups(G, t) == [g \in DOMAIN G \ t.groups |-> G[g]]
CommitMembers(B, t) == B (-) t.members

\* tx.Commit: a failed commit leaves nothing of the transaction behind
DeleteGroup_Commit(p) ==
    /\ proc[p].pc = "del_commit"
    /\ \E fail \in BOOLEAN :
         LET r == proc[p]
         IN IF fail
            THEN /\ proc' = [proc EXCEPT ![p] = Reply(r, "500", Nil, TRUE)]
                 /\ UNCHANGED <<groups, groupSeq, members>>
            ELSE /\ groups' = CommitGroups(groups, r.tx)
                 /\ members' = CommitMembers(members, r.tx)
                 /\ proc' = [proc EXCEPT ![p] = Reply(r, "200", Nil, FALSE)]
                 /\ UNCHANGED groupSeq

(* --------------------------- GetUsersInGroup --------------------------- *)
GetUsersInGroup(p) ==
    /\ Free(p)
    /\ \E g \in GroupIds, fail \in BOOLEAN :
         LET r == [Fresh EXCEPT !.op = "GetUsersInGroup", !.id = g]
         IN /\ proc' = [proc EXCEPT ![p] =
                  IF fail THEN Reply(r, "404", Nil, TRUE)
                  ELSE IF ~GroupExists(g) THEN Reply(r, "404", Nil, FALSE)
                  ELSE [r EXCEPT !.pc = "users_select"]]
            /\ UNCHANGED <<groups, groupSeq, members>>

\* SELECT * FROM "user" WHERE id IN (SELECT user_id FROM group_member ...)
UsersIn(B, g) == {u \in Users : CountOf(B, g, u) > 0}

GetUsersInGroup_Select(p) ==
    /\ proc[p].pc = "users_select"
    /\ \E fail \in BOOLEAN :
         LET r == proc[p]
         IN /\ proc' = [proc EXCEPT ![p] =
                  IF fail THEN Reply(r, "500", Nil, TRUE)
                  ELSE Reply(r, "200", UsersIn(members, r.id), FALSE)]
            /\ UNCHANGED <<groups, groupSeq, members>>

(* ---------------------------- AddUserToGroup --------------------------- *)
\* SELECT invitation FROM "group" WHERE id = $1
AddUserToGroup(p) ==
    /\ Free(p)
    /\ RowBudget
    /\ \E u \in Users, g \in GroupIds, target \in Users \cup NoSuchUser,
          code \in Codes, fail \in BOOLEAN :
         LET r == [Enter("AddUserToGroup", u) EXCEPT
                       !.id = g, !.user_id = target, !.invitation = code]
         IN /\ proc' = [proc EXCEPT ![p] =
                  IF fail THEN Reply(r, "404", Nil, TRUE)
                  ELSE IF ~GroupExists(g) THEN Reply(r, "404", Nil, FALSE)
                  ELSE [r EXCEPT !.pc = "add_user", !.local = groups[g].invitation]]
            /\ UNCHANGED <<groups, groupSeq, members>>

\* SELECT id FROM "user" WHERE id = $1 and the invitation check
AddUserToGroup_User(p) ==
    /\ proc[p].pc = "add_user"
    /\ \E fail \in BOOLEAN :
         LET r == proc[p]
         IN /\ proc' = [proc EXCEPT ![p] =
                  IF fail THEN Reply(r, "404", Nil, TRUE)
                  ELSE IF r.user_id \notin Users THEN Reply(r, "404", Nil, FALSE)
                  ELSE IF InvitationRejected(r.local, r.invitation, r.Role)
                       THEN Reply(r, "403", Nil, FALSE)
                  ELSE [r EXCEPT !.pc = "add_insert"]]
            /\ UNCHANGED <<groups, groupSeq, members>>

\* INSERT INTO group_member (user_id, group_id, created_at) VALUES ($1, $2, $3)
PlainRow(g, u) == MemberRow(g, u, DefaultFlag, DefaultFlag)

AddUserToGroup_Insert(p) ==
    /\ proc[p].pc = "add_insert"
    /\ \E fail \in BOOLEAN :
         LET r == proc[p]
         IN IF fail
            THEN /\ proc' = [proc EXCEPT ![p] = Reply(r, "500", Nil, TRUE)]
                 /\ UNCHANGED <<groups, groupSeq, members>>
            ELSE /\ members' = InsertRow(members, PlainRow(r.id, r.user_id))
                 /\ proc' = [proc EXCEPT ![p] = Reply(r, "200", Nil, FALSE)]
                 /\ UNCHANGED <<groups, groupSeq>>

(* -------------------------- RemoveUserFromGroup ------------------------ *)
RemoveUserFromGroup(p) ==
    /\ Free(p)
    /\ \E u \in Users, g \in GroupIds, target \in Users, fail \in BOOLEAN :
         LET r == [Enter("RemoveUserFromGroup", u) EXCEPT !.id = g, !.user_id = target]
         IN /\ proc' = [proc EXCEPT ![p] =
                  IF fail THEN Reply(r, "404", Nil, TRUE)
                  ELSE IF ~GroupExists(g) THEN Reply(r, "404", Nil, FALSE)
                  ELSE IF NotPermitted(groups[g].user_id, u, r.Role)
                       THEN Reply(r, "403", Nil, FALSE)
                  ELSE [r EXCEPT !.pc = "remove_delete"]]
            /\ UNCHANGED <<groups, groupSeq, members>>

\* DELETE FROM group_member WHERE user_id = $1 AND group_id = $2
DeleteMember(B, u, g) == B (-) RowsOf(B, g, u)

RemoveUserFromGroup_Delete(p) ==
    /\ proc[p].pc = "remove_delete"
    /\ ~MemberLocked(p, proc[p].id, proc[p].user_id)
    /\ \E fail \in BOOLEAN :
         LET r == proc[p]
         IN IF fail
            THEN /\ proc' = [proc EXCEPT ![p] = Reply(r, "500", Nil, TRUE)]
                 /\ UNCHANGED <<groups, groupSeq, members>>
            ELSE /\ members' = DeleteMember(members, r.user_id, r.id)
                 /\ proc' = [proc EXCEPT ![p] = Reply(r, "200", Nil, FALSE)]
                 /\ UNCHANGED <<groups, groupSeq>>

(* ------------------------------- QuitGroup ----------------------------- *)
\* SELECT count(*) FROM "group_member" WHERE user_id = $1 AND group_id = $2
QuitGroup(p) ==
    /\ Free(p)
    /\ \E u \in Users, g \in GroupIds, fail \in BOOLEAN :
         LET r == [Enter("QuitGroup", u) EXCEPT !.id = g]
         IN /\ proc' = [proc EXCEPT ![p] =
                  IF fail THEN Reply(r, "500", Nil, TRUE)
                  ELSE IF CountOf(members, g, u) = 0 THEN Reply(r, "404", Nil, FALSE)
                  ELSE [r EXCEPT !.pc = "quit_owner"]]
            /\ UNCHANGED <<groups, groupSeq, members>>

\* groupUserId == userId
IsCreator(ownerId, userId) == ownerId = userId

\* SELECT user_id FROM "group" WHERE id = $1 and the creator check
QuitGroup_Owner(p) ==
    /\ proc[p].pc = "quit_owner"
    /\ \E fail \in BOOLEAN :
         LET r == proc[p]
         IN /\ proc' = [proc EXCEPT ![p] =
                  IF fail THEN Reply(r, "500", Nil, TRUE)
                  ELSE IF ~GroupExists(r.id) THEN Reply(r, "500", Nil, FALSE)
                  ELSE IF IsCreator(groups[r.id].user_id, r.UserId)
                       THEN Reply(r, "403", Nil, FALSE)
                  ELSE [r EXCEPT !.pc = "quit_delete"]]
            /\ UNCHANGED <<groups, groupSeq, members>>

QuitGroup_Delete(p) ==
    /\ proc[p].pc = "quit_delete"
    /\ ~MemberLocked(p, proc[p].id, proc[p].UserId)
    /\ \E fail \in BOOLEAN :
         LET r == proc[p]
         IN IF fail
            THEN /\ proc' = [proc EXCEPT ![p] = Reply(r, "500", Nil, TRUE)]
                 /\ UNCHANGED <<groups, groupSeq, members>>
            ELSE /\ members' = DeleteMember(members, r.UserId, r.id)
                 /\ proc' = [proc EXCEPT ![p] = Reply(r, "200", Nil, FALSE)]
                 /\ UNCHANGED <<groups, groupSeq>>

(* ---------------------------- UpdateGroupInfo -------------------------- *)
\* the nil checks: a field the body leaves out takes the value that was read
MergeField(given, read) == IF given = None THEN read ELSE Deref(given)

MergeRequest(req, g) ==
    [Name |-> MergeField(req.Name, g.name),
     Description |-> MergeField(req.Description, g.description),
     Invitation |-> MergeField(req.Invitation, g.invitation),
     AreaId |-> MergeField(req.AreaId, g.area_id)]

\* SELECT * FROM "group" WHERE id = $1, the permission check, ShouldBindJSON
\* and the nil checks
UpdateGroupInfo(p) ==
    /\ Free(p)
    /\ \E u \in Users, g \in GroupIds, parseable \in BOOLEAN,
          req \in UpdateRequests, fail \in BOOLEAN :
         LET r == [Enter("UpdateGroupInfo", u) EXCEPT !.id = g]
         IN /\ proc' = [proc EXCEPT ![p] =
                  IF fail THEN Reply(r, "404", Nil, TRUE)
                  ELSE IF ~GroupExists(g) THEN Reply(r, "404", Nil, FALSE)
                  ELSE IF NotPermitted(groups[g].user_id, u, r.Role)
                       THEN Reply(r, "403", Nil, FALSE)
                  ELSE IF ~parseable THEN Reply(r, "400", Nil, FALSE)
                  ELSE [r EXCEPT !.pc = "update_exec", !.request = req,
                                 !.local = MergeRequest(req, groups[g])]]
            /\ UNCHANGED <<groups, groupSeq, members>>

\* UPDATE "group" SET name = $1, description = $2, invitation = $3, area_id = $4
UpdatedGroup(g, m) ==
    [g EXCEPT !.name = m.Name, !.description = m.Description,
              !.invitation = m.Invitation, !.area_id = m.AreaId]

UpdateGroupInfo_Exec(p) ==
    /\ proc[p].pc = "update_exec"
    /\ ~GroupLocked(p, proc[p].id)
    /\ \E fail \in BOOLEAN :
         LET r == proc[p]
         IN IF fail
            THEN /\ proc' = [proc EXCEPT ![p] = Reply(r, "500", Nil, TRUE)]
                 /\ UNCHANGED <<groups, groupSeq, members>>
            ELSE /\ groups' = [g \in DOMAIN groups |->
                                 IF g = r.id THEN UpdatedGroup(groups[g], r.local)
                                 ELSE groups[g]]
                 /\ proc' = [proc EXCEPT ![p] = Reply(r, "200", Nil, FALSE)]
                 /\ UNCHANGED <<groupSeq, members>>

(* ------------------------------- GetGroups ----------------------------- *)
\* the WHERE clause GetGroups builds from the filter
Matches(f, gid) ==
    /\ f.ID = None \/ gid = Deref(f.ID)
    /\ f.UserId = None \/ CountOf(members, gid, Deref(f.UserId)) > 0
    /\ f.OwnerId = None \/ groups[gid].user_id = Deref(f.OwnerId)
    /\ f.AreaId = None \/ groups[gid].area_id = Deref(f.AreaId)

\* a row of "group" as SELECT * scans it into model.Group
GroupRow(gid) ==
    [Id |-> gid, Name |-> groups[gid].name, Description |-> groups[gid].description,
     UserId |-> groups[gid].user_id, AreaId |-> groups[gid].area_id]

\* the orders in which a SELECT without ORDER BY can return the rows of S
Orders(S) ==
    {o \in [1..Cardinality(S) -> S] : \A i, j \in DOMAIN o : o[i] = o[j] => i = j}

\* the response when the loop is over
GroupsBody(out) == [TotalCount |-> Len(out), Group |-> out]

\* ShouldBindQuery and the SELECT over "group"; with no row selected the loop
\* body never runs
GetGroups(p) ==
    /\ Free(p)
    /\ \E parseable \in BOOLEAN, f \in GroupFilters, fail \in BOOLEAN :
         LET r == [Fresh EXCEPT !.op = "GetGroups"]
             sel == {g \in DOMAIN groups : Matches(f, g)}
         IN /\ \E o \in Orders(sel) :
                 proc' = [proc EXCEPT ![p] =
                    IF ~parseable THEN Reply(r, "400", Nil, FALSE)
                    ELSE IF fail THEN Reply(r, "500", Nil, TRUE)
                    ELSE IF sel = {} THEN Reply(r, "200", GroupsBody(<<>>), FALSE)
                    ELSE [r EXCEPT !.pc = "groups_user",
                                   !.local = [rows |-> [i \in DOMAIN o |-> GroupRow(o[i])],
                                              out |-> <<>>]]]
            /\ UNCHANGED <<groups, groupSeq, members>>

\* one iteration, first call: SELECT name, ... FROM "user" WHERE id = $1 for the
\* owner of the group at hand
GetGroups_User(p) ==
    /\ proc[p].pc = "groups_user"
    /\ \E fail \in BOOLEAN :
         LET r == proc[p]
         IN /\ proc' = [proc EXCEPT ![p] =
                  IF fail THEN Reply(r, "500", Nil, TRUE)
                  ELSE IF Head(r.local.rows).UserId \notin Users
                       THEN Reply(r, "500", Nil, FALSE)
                  ELSE [r EXCEPT !.pc = "groups_count"]]
            /\ UNCHANGED <<groups, groupSeq, members>>

\* the GroupResponse of one iteration: no Invitation, and a UserInfo whose
\* UserId is the zero value, the user query not selecting id
GroupItem(row, count) ==
    [Id |-> row.Id, Name |-> row.Name, Description |-> row.Description,
     UserId |-> row.UserId, UserInfo |-> [UserId |-> 0], MemberCount |-> count,
     AreaId |-> row.AreaId]

\* one iteration, second call: SELECT count(*) FROM group_member WHERE
\* group_id = $1, the append, and the response after the last group
GetGroups_Count(p) ==
    /\ proc[p].pc = "groups_count"
    /\ \E fail \in BOOLEAN :
         LET r == proc[p]
             row == Head(r.local.rows)
             out == Append(r.local.out,
                           GroupItem(row, BagCardinality(RowsOfGroup(members, row.Id))))
         IN /\ proc' = [proc EXCEPT ![p] =
                  IF fail THEN Reply(r, "500", Nil, TRUE)
                  ELSE IF Tail(r.local.rows) = <<>>
                       THEN Reply(r, "200", GroupsBody(out), FALSE)
                  ELSE [r EXCEPT !.pc = "groups_user",
                                 !.local = [rows |-> Tail(r.local.rows), out |-> out]]]
            /\ UNCHANGED <<groups, groupSeq, members>>

(* --------------------------- specifications ---------------------------- *)
\* the response is written and the goroutine is free for the next request
Return(p) ==
    /\ proc[p].pc = "done"
    /\ proc' = [proc EXCEPT ![p] = Fresh]
    /\ UNCHANGED <<groups, groupSeq, members>>

Step(p) ==
    \/ GetGroups(p)
    \/ GetGroups_User(p)
    \/ GetGroups_Count(p)
    \/ CreateGroup(p)
    \/ CreateGroup_InsertMember(p)
    \/ CreateGroup_Select(p)
    \/ GetGroupInvitation(p)
    \/ GetGroupInvitation_Member(p)
    \/ DeleteGroup(p)
    \/ DeleteGroup_Begin(p)
    \/ DeleteGroup_Members(p)
    \/ DeleteGroup_Group(p)
    \/ DeleteGroup_Commit(p)
    \/ GetUsersInGroup(p)
    \/ GetUsersInGroup_Select(p)
    \/ AddUserToGroup(p)
    \/ AddUserToGroup_User(p)
    \/ AddUserToGroup_Insert(p)
    \/ RemoveUserFromGroup(p)
    \/ RemoveUserFromGroup_Delete(p)
    \/ QuitGroup(p)
    \/ QuitGroup_Owner(p)
    \/ QuitGroup_Delete(p)
    \/ UpdateGroupInfo(p)
    \/ UpdateGroupInfo_Exec(p)
    \/ Return(p)

\* one request at a time
Next == Step("p1")

Spec == Init /\ [][Next]_vars

\* the mutating handlers and the list as concurrent requests, interleaved
\* statement by statement
ConcStep(p) ==
    \/ GetGroups(p)
    \/ GetGroups_User(p)
    \/ GetGroups_Count(p)
    \/ (groupSeq < MaxConcGroups /\ CreateGroup(p))
    \/ CreateGroup_InsertMember(p)
    \/ CreateGroup_Select(p)
    \/ DeleteGroup(p)
    \/ DeleteGroup_Begin(p)
    \/ DeleteGroup_Members(p)
    \/ DeleteGroup_Group(p)
    \/ DeleteGroup_Commit(p)
    \/ AddUserToGroup(p)
    \/ AddUserToGroup_User(p)
    \/ AddUserToGroup_Insert(p)
    \/ RemoveUserFromGroup(p)
    \/ RemoveUserFromGroup_Delete(p)
    \/ QuitGroup(p)
    \/ QuitGroup_Owner(p)
    \/ QuitGroup_Delete(p)
    \/ UpdateGroupInfo(p)
    \/ UpdateGroupInfo_Exec(p)
    \/ Return(p)

NextConc == \E p \in Procs : ConcStep(p)

SpecConc == Init /\ [][NextConc]_vars

(* ------------------------------- claims -------------------------------- *)
Quiescent == \A p \in Procs : proc[p].pc \in {"idle", "done"}
Done(p, o) == proc[p].pc = "done" /\ proc[p].op = o
HasOwnerRow(g) ==
    CopiesIn(MemberRow(g, groups[g].user_id, TRUE, TRUE), members) >= 1
MutatingOps == {"DeleteGroup", "UpdateGroupInfo", "RemoveUserFromGroup"}

\* C1: whenever no request is in flight, every existing group has a
\* group_member row for (group, owner) with is_admin and is_owner set, after
\* any sequence of group operations, a CreateGroup whose second insert
\* fails included.
C1_OwnerIsMember == Quiescent => \A g \in DOMAIN groups : HasOwnerRow(g)

\* C2: no membership row put there by AddUserToGroup refers to a group that
\* does not exist: once DeleteGroup(g) has committed, no such row with
\* group_id = g exists in any later state, also when the other requests on g
\* are interleaved with the transaction statement by statement.
C2_DeleteCascades ==
    \A r \in DOMAIN members : ~r.is_owner => GroupExists(r.group_id)

\* C3: for DeleteGroup, UpdateGroupInfo and RemoveUserFromGroup on an existing
\* group whose lookup ran without database error: a caller who is neither
\* the owner nor admin is answered 403 and the step leaves "group" and
\* group_member as they were; a caller who is the owner or admin is not
\* answered 403, and no later step of the request answers 403.
C3_PermissionGate ==
    [][\A p \in Procs :
         LET r == proc'[p]
         IN /\ (Free(p) /\ r.op \in MutatingOps /\ GroupExists(r.id) /\ ~r.dbErr) =>
                  IF groups[r.id].user_id # r.UserId /\ r.Role # ADMIN
                  THEN r.pc = "done" /\ r.status = "403"
                       /\ groups' = groups /\ members' = members
                  ELSE r.status # "403"
            /\ (~Free(p) /\ r.op \in MutatingOps) =>
                  (r.status = "403" => proc[p].status = "403")
      ]_vars

C3_Witness ==
    \E p \in Procs :
        /\ Done(p, "DeleteGroup") /\ proc[p].status = "403" /\ ~proc[p].dbErr
        /\ GroupExists(proc[p].id)
        /\ groups[proc[p].id].user_id # proc[p].UserId
        /\ RowsOfGroup(members, proc[p].id) # EmptyBag

\* C4: DeleteGroup is atomic: every step of the handler but a successful
\* commit leaves "group" and group_member as they were, and a failure of the
\* deletion of the membership rows, of the deletion of the group row or of
\* the commit is answered 500; the step that answers 200 is the commit after
\* both deletions, and it removes the group row and all of its membership
\* rows and nothing else.
C4_DeleteAtomic ==
    [][\A p \in Procs :
         LET r == proc[p]
             r2 == proc'[p]
         IN /\ (r2.op = "DeleteGroup" /\ r2.pc # r.pc) =>
                  IF r2.status = "200"
                  THEN /\ r.pc = "del_commit" /\ ~r2.dbErr
                       /\ DOMAIN groups' = DOMAIN groups \ {r.id}
                       /\ \A g \in DOMAIN groups' : groups'[g] = groups[g]
                       /\ RowsOfGroup(members', r.id) = EmptyBag
                       /\ \A g \in GroupIds \ {r.id} :
                            RowsOfGroup(members', g) = RowsOfGroup(members, g)
                  ELSE groups' = groups /\ members' = members
            /\ (r.op = "DeleteGroup" /\ ~r.dbErr /\ r2.dbErr
                  /\ r.pc \in {"del_members", "del_group", "del_commit"}) =>
                  r2.pc = "done" /\ r2.status = "500"
      ]_vars

C4_Witness ==
    \E p \in Procs :
        /\ Done(p, "DeleteGroup") /\ proc[p].status = "500" /\ proc[p].dbErr
        /\ GroupExists(proc[p].id)
        /\ BagCardinality(RowsOfGroup(members, proc[p].id)) >= 2

\* C5: QuitGroup(g) called by the owner of the existing group g, with no
\* database error, is answered 403 in every reachable state.
C5_OwnerQuitForbidden ==
    \A p \in Procs :
        (/\ Done(p, "QuitGroup") /\ ~proc[p].dbErr
         /\ GroupExists(proc[p].id)
         /\ groups[proc[p].id].user_id = proc[p].UserId)
        => proc[p].status = "403"

\* C6: a QuitGroup(g) that succeeds, called by a non-owner member of a group
\* whose owner has the owner row, removes exactly one group_member row.
C6_QuitRemovesOne ==
    [][\A p \in Procs :
         (proc[p].pc = "quit_delete" /\ proc'[p].status = "200"
            /\ GroupExists(proc[p].id) /\ HasOwnerRow(proc[p].id)) =>
             BagCardinality(members') = BagCardinality(members) - 1
      ]_vars

\* C7: the write of an UpdateGroupInfo(g) leaves every field its body omits
\* at the value the field held immediately before that write.
C7_OmittedUnchanged ==
    [][\A p \in Procs :
         (proc[p].pc = "update_exec" /\ proc'[p].status = "200"
            /\ GroupExists(proc[p].id)) =>
             LET req == proc[p].request
                 old == groups[proc[p].id]
                 new == groups'[proc[p].id]
             IN /\ req.Name = None => new.name = old.name
                /\ req.Description = None => new.description = old.description
                /\ req.Invitation = None => new.invitation = old.invitation
                /\ req.AreaId = None => new.area_id = old.area_id
      ]_vars

\* C8: AddUserToGroup(g, user_id, invitation) on an existing group and an
\* existing user, with no database error: when the invitation equals the
\* stored code or the caller is admin, the request goes on to the insert,
\* which adds exactly one row (g, user_id) without owner or admin flag,
\* changes nothing else and is answered 200; otherwise it is answered 403;
\* no step of a request that is not answered 200 changes a table.
C8_AddByInvitation ==
    [][\A p \in Procs :
         LET r == proc[p]
             r2 == proc'[p]
         IN /\ (r.pc = "add_user" /\ ~r2.dbErr /\ GroupExists(r.id)
                  /\ r.user_id \in Users) =>
                  IF groups[r.id].invitation = r.invitation \/ r.Role = ADMIN
                  THEN r2.pc = "add_insert"
                  ELSE r2.pc = "done" /\ r2.status = "403"
            /\ (r.pc = "add_insert" /\ ~r2.dbErr) =>
                  /\ r2.pc = "done" /\ r2.status = "200"
                  /\ members' = members (+) SetToBag({MemberRow(r.id, r.user_id, FALSE, FALSE)})
                  /\ BagCardinality(members') = BagCardinality(members) + 1
                  /\ groups' = groups
            /\ (r2.op = "AddUserToGroup" /\ r2.pc # r.pc /\ r2.status # "200") =>
                  members' = members /\ groups' = groups
      ]_vars

C8_Witness ==
    \E p \in Procs :
        /\ Done(p, "AddUserToGroup") /\ proc[p].status = "200"
        /\ proc[p].Role # ADMIN /\ GroupExists(proc[p].id)
        /\ proc[p].invitation = groups[proc[p].id].invitation
        /\ CopiesIn(MemberRow(proc[p].id, proc[p].user_id, FALSE, FALSE), members) = 1
        /\ BagCardinality(members) >= 2

GroupLookupOps ==
    {"GetGroupInvitation", "DeleteGroup", "GetUsersInGroup",
     "RemoveUserFromGroup", "UpdateGroupInfo"}

\* C9: a handler answers 404 only when the row it looked up is absent, and
\* 403 only when its ownership, role or invitation check fails (a database
\* error is answered neither way).
C9_NotFoundOnlyWhenAbsent ==
    \A p \in Procs :
        LET r == proc[p]
        IN /\ (r.pc = "done" /\ r.status = "404" /\ r.op \in GroupLookupOps) =>
                 ~GroupExists(r.id)
           /\ (r.pc = "done" /\ r.status = "404" /\ r.op = "AddUserToGroup") =>
                 ~GroupExists(r.id) \/ r.user_id \notin Users
           /\ (r.pc = "done" /\ r.status = "404" /\ r.op = "QuitGroup") =>
                 CountOf(members, r.id, r.UserId) = 0
           /\ (r.pc = "done" /\ r.status = "403" /\ r.op = "GetGroupInvitation") =>
                 CountOf(members, r.id, r.UserId) = 0

\* C10: a CreateGroup with a parseable payload: the first insert adds exactly
\* one group row, owned by the caller, with the supplied area_id or 100 when
\* it is omitted, and changes no other row: every group that existed keeps
\* its fields and group_member is as it was; the second adds exactly one
\* membership row (new group, caller) and leaves every other membership row
\* and every group row as they were; the request is answered 200 only after
\* both, with the stored invitation code in the body.
C10_CreateGroup ==
    [][\A p \in Procs :
         LET r == proc[p]
             r2 == proc'[p]
         IN /\ (Free(p) /\ r2.pc = "create_member") =>
                  LET gid == r2.local
                  IN /\ ~GroupExists(gid)
                     /\ DOMAIN groups' = DOMAIN groups \cup {gid}
                     /\ \A g \in DOMAIN groups : groups'[g] = groups[g]
                     /\ groups'[gid].user_id = r2.UserId
                     /\ groups'[gid].name = r2.request.Name
                     /\ groups'[gid].description = r2.request.Description
                     /\ groups'[gid].invitation \in GeneratedCodes
                     /\ groups'[gid].area_id =
                           IF r2.request.AreaId = None THEN DefaultAreaId
                           ELSE Deref(r2.request.AreaId)
                     /\ members' = members
            /\ (r.pc = "create_member" /\ r2.pc = "create_select") =>
                  /\ groups' = groups
                  /\ members' = members (+) SetToBag({MemberRow(r.local, r.UserId, TRUE, TRUE)})
                  /\ CountOf(members', r.local, r.UserId) = 1
            /\ (r.pc = "create_select") => groups' = groups /\ members' = members
            /\ (r2.op = "CreateGroup" /\ r2.status = "200" /\ r.status # "200") =>
                  /\ r.pc = "create_select"
                  /\ r2.body.Id = r.local
                  /\ r2.body.Invitation = groups[r.local].invitation
                  /\ r2.body.UserId = r.UserId
                  /\ r2.body.AreaId = groups[r.local].area_id
      ]_vars

\* a second group created, by another user than the first one's owner, while
\* the first group (renamed since) and its two membership rows exist
C10_Witness ==
    \E p \in Procs :
        /\ Done(p, "CreateGroup") /\ proc[p].status = "200"
        /\ proc[p].request.AreaId = None
        /\ proc[p].body.AreaId = DefaultAreaId
        /\ proc[p].body.Invitation \in GeneratedCodes
        /\ CountOf(members, proc[p].body.Id, proc[p].UserId) = 1
        /\ \E g \in DOMAIN groups \ {proc[p].body.Id} :
              /\ g < proc[p].body.Id
              /\ groups[g].user_id # proc[p].UserId
              /\ groups[g].name = "B"
              /\ HasOwnerRow(g)
              /\ BagCardinality(RowsOfGroup(members, g)) = 2
====
